---- MODULE Spec2Model ----
(***************************************************************************)
(* A model of visualaid.py: the Grid visual (geometry, live canvas, frame  *)
(* buffer, single-visual export) and the Animator (multi-visual export).   *)
(*                                                                         *)
(* The specifications share the variables:                                 *)
(*   SpecGrid       Grid.__init__ and the bounding box of Grid.fill_cell   *)
(*                  over small grid configurations;                        *)
(*   SpecBand       Grid.__init__ over tall grids (the counter band);      *)
(*   SpecNeighbors  Grid.neighbors over small grids;                       *)
(*   Spec           recording (fill_cell, save_frame, holdresult) and both *)
(*                  exports, each export one step, on two visuals;         *)
(*   SpecScene      Spec with a second visual of two cells;                *)
(*   SpecSteps      Spec with the exports executed statement by statement. *)
(***************************************************************************)
EXTENDS Integers, Sequences, FiniteSets, TLC

VARIABLES
    cfg,        \* SpecGrid/SpecBand: the Grid under construction test, or NoGrid
    bbox,       \* SpecGrid: the bbox local of the last fill_cell call, or NoBBox
    grid,       \* Spec: visual -> the attributes Grid.__init__ sets
    image,      \* Spec: visual -> self.image, the live canvas
    frames,     \* Spec: visual -> self.frames, the list of encoded frames
    holdresult, \* Spec: visual -> self.holdresult
    out         \* Spec: what the last operation handed to the encoder or raised;
                \* SpecSteps: the frame of the running export;
                \* SpecNeighbors: the last Grid.neighbors call and its result

vars == <<cfg, bbox, grid, image, frames, holdresult, out>>

(***************************************************************************)
(* Bounds of the model.                                                    *)
(***************************************************************************)
MaxGridX == 2
MaxGridY == 2
MaxCellWidth == 2
MaxCellHeight == 2
MaxGridlineWidth == 2
MaxTallGridY == 2
MaxTallCellHeight == 330
MaxFrames == 2
MaxBuffer == 3
MaxHold == 2
MaxDuration == 2
MaxNeighborGrid == 3
MaxOutside == 2

(***************************************************************************)
(* Python arithmetic.                                                      *)
(***************************************************************************)
\* bool used as an int (True == 1, False == 0)
BoolInt(b) == IF b THEN 1 ELSE 0

Abs(n) == IF n < 0 THEN -n ELSE n

Max(a, b) == IF a >= b THEN a ELSE b

\* int(a / b) for b # 0: true division, then truncation toward zero
IntTrueDiv(a, b) ==
    IF (a >= 0) = (b > 0) THEN Abs(a) \div Abs(b) ELSE -(Abs(a) \div Abs(b))

\* round(h / 40) as Python rounds an exact h/40: to nearest, ties to even
RoundOfScaled(h) ==
    LET q == h \div 40
        r == h % 40
    IN  IF r < 20 THEN q
        ELSE IF r > 20 THEN q + 1
        ELSE IF q % 2 = 0 THEN q ELSE q + 1

\* int(0.025 * h) for h >= 0: the double 0.025 is a little above 1/40, the
\* product rounds to a double >= the exact h/40 and below the next integer,
\* so truncation gives the floor of h/40
IntOfScaled(h) == h \div 40

(***************************************************************************)
(* Grid.__init__: the derived geometry.                                    *)
(***************************************************************************)
NoGrid == [grid_x |-> 0]

GridInit(grid_x, grid_y, cell_width, cell_height, gridlines, gridline_width, frame_counter_text, flip_vertical) ==
    LET grid_image_height ==
            (grid_y * cell_height)
              + ((BoolInt(gridlines) * (grid_y + 1)) * gridline_width)
        grid_image_width ==
            (grid_x * cell_width)
              + ((BoolInt(gridlines) * (grid_x + 1)) * gridline_width)
        frame_counter_text_height ==
            Max(15, IntOfScaled(grid_image_height)) * BoolInt(frame_counter_text)
    IN  [grid_x |-> grid_x,
         grid_y |-> grid_y,
         cell_width |-> cell_width,
         cell_height |-> cell_height,
         gridlines |-> gridlines,
         gridline_width |-> gridline_width,
         frame_counter_text |-> frame_counter_text,
         flip_vertical |-> flip_vertical,
         grid_image_height |-> grid_image_height,
         grid_image_width |-> grid_image_width,
         frame_counter_text_height |-> frame_counter_text_height,
         image_width |-> grid_image_width + 0,
         image_height |-> grid_image_height + frame_counter_text_height]

(***************************************************************************)
(* Grid.fill_cell: the bounding box of a cell.                             *)
(***************************************************************************)
NoBBox == [coord |-> <<>>]

\* fill_cell with the far corner one pixel too far (x1 = x0 + cell_width)
FillCellBBoxWide(g, coord) ==
    LET x == coord[1]
        y == IF g.flip_vertical THEN (g.grid_y - 1) - Abs(coord[2]) ELSE coord[2]
        gridspace == BoolInt(g.gridlines) * g.gridline_width
        x0 == (x * g.cell_width) + (x * gridspace) + gridspace
        y0 == (y * g.cell_height) + (y * gridspace) + gridspace
    IN  [coord |-> coord, x0 |-> x0, y0 |-> y0,
         x1 |-> x0 + g.cell_width, y1 |-> y0 + g.cell_height]

FillCellBBox(g, coord) ==
    LET x == coord[1]
        y == IF g.flip_vertical THEN (g.grid_y - 1) - Abs(coord[2]) ELSE coord[2]
        gridspace == BoolInt(g.gridlines) * g.gridline_width
        x0 == (x * g.cell_width) + (x * gridspace) + gridspace
        y0 == (y * g.cell_height) + (y * gridspace) + gridspace
        x1 == x0 + g.cell_width - 1
        y1 == y0 + g.cell_height - 1
    IN  [coord |-> coord, x0 |-> x0, y0 |-> y0, x1 |-> x1, y1 |-> y1]

\* the (column, row) addresses inside the grid
Cells(g) == (0 .. g.grid_x - 1) \X (0 .. g.grid_y - 1)

\* the pixels draw.rectangle(bbox) covers: both corners are inclusive
BBoxPixels(b) == (b.x0 .. b.x1) \X (b.y0 .. b.y1)

(***************************************************************************)
(* SpecGrid: construct a small grid, then compute cell bounding boxes.     *)
(***************************************************************************)
InitGeom ==
    /\ cfg = NoGrid
    /\ bbox = NoBBox
    /\ grid = <<>>
    /\ image = <<>>
    /\ frames = <<>>
    /\ holdresult = <<>>
    /\ out = <<>>

Construct(grid_x, grid_y, cell_width, cell_height, gridlines, gridline_width, frame_counter_text, flip_vertical) ==
    /\ cfg = NoGrid
    /\ cfg' = GridInit(grid_x, grid_y, cell_width, cell_height, gridlines,
                       gridline_width, frame_counter_text, flip_vertical)
    /\ UNCHANGED <<bbox, grid, image, frames, holdresult, out>>

ConstructSmall ==
    \E grid_x \in 1 .. MaxGridX, grid_y \in 1 .. MaxGridY,
       cell_width \in 1 .. MaxCellWidth, cell_height \in 1 .. MaxCellHeight,
       gridlines \in BOOLEAN, gridline_width \in 0 .. MaxGridlineWidth,
       frame_counter_text \in BOOLEAN, flip_vertical \in BOOLEAN :
        Construct(grid_x, grid_y, cell_width, cell_height, gridlines,
                  gridline_width, frame_counter_text, flip_vertical)

ConstructTall ==
    \E grid_y \in 1 .. MaxTallGridY, cell_height \in 1 .. MaxTallCellHeight,
       gridlines \in BOOLEAN, frame_counter_text \in BOOLEAN :
        Construct(1, grid_y, 1, cell_height, gridlines, 1,
                  frame_counter_text, FALSE)

FillCellGeom ==
    /\ cfg # NoGrid
    /\ \E coord \in Cells(cfg) : bbox' = FillCellBBox(cfg, coord)
    /\ UNCHANGED <<cfg, grid, image, frames, holdresult, out>>

NextGrid == ConstructSmall \/ FillCellGeom

SpecGrid == InitGeom /\ [][NextGrid]_vars

NextBand == ConstructTall

SpecBand == InitGeom /\ [][NextBand]_vars

(***************************************************************************)
(* The live canvas (PIL image) of a Grid.  The grid region is kept pixel   *)
(* by pixel; the counter band below it is kept as the set of labels drawn  *)
(* into it.                                                                *)
(***************************************************************************)
\* Image.new(mode="RGB", size=(image_width, image_height), color=bg_color)
NewImage(g) ==
    [size |-> <<g.image_width, g.grid_image_height>>,
     px |-> [p \in (0 .. g.image_width - 1) \X (0 .. g.grid_image_height - 1)
               |-> "bg"],
     text |-> {}]

\* self.draw.rectangle(bbox, fill)
DrawRectangle(img, b, fill) ==
    [img EXCEPT !.px =
        [p \in DOMAIN img.px |-> IF p \in BBoxPixels(b) THEN fill ELSE img.px[p]]]

\* range(start, stop, step) for step > 0
Range(start, stop, step) ==
    IF stop <= start THEN {}
    ELSE {start + (k * step) : k \in 0 .. ((stop - start - 1) \div step)}

\* Grid._draw_gridlines, for the width-1 lines of the visuals of Spec: a
\* line of width 1 colours exactly the pixels between its end points
DrawGridlines(g, img) ==
    LET gridline_width_expansion ==
            IF g.gridline_width >= 3
            THEN ((g.gridline_width + 1) \div 2) - 1 ELSE 0
        xs == Range(0 + gridline_width_expansion, g.grid_image_width + 1,
                    g.cell_width + g.gridline_width)
        ys == Range(0 + gridline_width_expansion, g.grid_image_height + 1,
                    g.cell_height + g.gridline_width)
    IN  [img EXCEPT !.px =
            [p \in DOMAIN img.px |->
                IF p[1] \in xs \/ p[2] \in ys THEN "line" ELSE img.px[p]]]

\* Grid._draw_image
DrawImage(g, img) == IF g.gridlines THEN DrawGridlines(g, img) ELSE img

\* Grid._create_bytesio_object: image_obj.save(byte_img, "PNG"), the pixels
\* in row-major order followed by nothing the model needs
CreateBytesioObject(img) ==
    LET w == img.size[1]
        h == img.size[2]
    IN  [size |-> img.size,
         data |-> [i \in 1 .. (w * h) |-> img.px[<<(i - 1) % w, (i - 1) \div w>>]],
         text |-> img.text]

\* Image.open(frame): a new image decoded from the bytes
ImageOpen(frame) ==
    LET w == frame.size[1]
        h == frame.size[2]
    IN  [size |-> frame.size,
         px |-> [p \in (0 .. w - 1) \X (0 .. h - 1) |-> frame.data[(p[2] * w) + p[1] + 1]],
         text |-> frame.text]

\* Grid._draw_frame_counter_text: f"{text} {frame_pos} / {total_fames}"
DrawFrameCounterText(frame, text, frame_pos, total_fames) ==
    [frame EXCEPT !.text = @ \cup {<<text, frame_pos, total_fames>>}]

(***************************************************************************)
(* Recording.  st is the pair [image, frames] of one Grid.                 *)
(***************************************************************************)
\* save_frame keeping references to the live canvas: every buffered frame
\* shows what the canvas shows now
SaveFrameOfAliased(g, st) ==
    LET img == DrawImage(g, st.image)
    IN  [image |-> img,
         frames |-> [i \in 1 .. (Len(st.frames) + 1) |-> CreateBytesioObject(img)]]

\* save_frame putting the new frame in front of the buffer
SaveFrameOfPrepend(g, st) ==
    LET img == DrawImage(g, st.image)
    IN  [image |-> img, frames |-> <<CreateBytesioObject(img)>> \o st.frames]

\* Grid.save_frame
SaveFrameOf(g, st) ==
    LET img == DrawImage(g, st.image)
    IN  [image |-> img, frames |-> Append(st.frames, CreateBytesioObject(img))]

\* for _ in range(n): visual.save_frame()
RECURSIVE RepeatSaveFrame(_, _, _)
RepeatSaveFrame(g, st, n) ==
    IF n <= 0 THEN st ELSE RepeatSaveFrame(g, SaveFrameOf(g, st), n - 1)

\* the two Grid objects of Spec: a one-cell grid with gridlines and the frame
\* counter, and a one-cell grid without either
VisualConfigs ==
    <<GridInit(1, 1, 1, 1, TRUE, 1, TRUE, FALSE),
      GridInit(1, 1, 1, 1, FALSE, 1, FALSE, FALSE)>>

Visuals == DOMAIN VisualConfigs

FillColors == {"fill"}

\* the visuals whose holdresult the caller sets; the others keep the 0 of
\* Grid.__init__
HoldVisuals == {1}

NoOut == [op |-> "none"]

\* base_grid when next(frame_gen) raised before anything was yielded
NoFrame == [visual |-> 0]

Init ==
    /\ cfg = NoGrid
    /\ bbox = NoBBox
    /\ grid = VisualConfigs
    /\ image = [v \in Visuals |-> NewImage(VisualConfigs[v])]
    /\ frames = [v \in Visuals |-> <<>>]
    /\ holdresult = [v \in Visuals |-> 0]
    /\ out = NoOut

\* Grid.fill_cell(coord, fill)
FillCell(v, coord, fill) ==
    /\ image' = [image EXCEPT ![v] =
                    DrawRectangle(@, FillCellBBox(grid[v], coord), fill)]
    /\ out' = NoOut
    /\ UNCHANGED <<cfg, bbox, grid, frames, holdresult>>

\* Grid.save_frame()
SaveFrame(v) ==
    /\ Len(frames[v]) < MaxFrames
    /\ \E st \in {SaveFrameOf(grid[v], [image |-> image[v], frames |-> frames[v]])} :
         /\ image' = [image EXCEPT ![v] = st.image]
         /\ frames' = [frames EXCEPT ![v] = st.frames]
    /\ out' = NoOut
    /\ UNCHANGED <<cfg, bbox, grid, holdresult>>

\* grid.holdresult = h
SetHoldresult(v, h) ==
    /\ holdresult[v] # h
    /\ holdresult' = [holdresult EXCEPT ![v] = h]
    /\ out' = NoOut
    /\ UNCHANGED <<cfg, bbox, grid, image, frames>>

(***************************************************************************)
(* Grid.save_animation and Grid._frames_gen.                               *)
(***************************************************************************)
\* the buffer lengths when an export is called
BufferLengths == [v \in Visuals |-> Len(frames[v])]

\* the hold frame count rounded up instead of truncated
GridHoldframeCountRoundUp(hold, duration) ==
    LET hold_duration == IF duration = 0 THEN 1 ELSE duration
    IN  IntTrueDiv(hold + (hold_duration - 1), hold_duration)

\* the hold frame count of Grid.save_animation
GridHoldframeCount(hold, duration) ==
    LET hold_duration == IF duration = 0 THEN 1 ELSE duration
    IN  IntTrueDiv(hold, hold_duration)

\* the frame position without the clamp for hold frames
FramePosUnclamped(processed_frames, total_frames, holdframe_count) ==
    processed_frames

\* the frame position drawn: hold frames keep the last position
FramePos(processed_frames, total_frames, holdframe_count) ==
    IF processed_frames <= total_frames - holdframe_count
    THEN processed_frames
    ELSE total_frames - holdframe_count

\* one frame as the generators yield it
YieldFrame(g, v, index, frame, processed_frames, total_frames, holdframe_count) ==
    LET frame_image == ImageOpen(frame)
    IN  [visual |-> v,
         index |-> index,
         processed_frames |-> processed_frames,
         image |->
            IF g.frame_counter_text
            THEN DrawFrameCounterText(
                     frame_image, "Frame: ",
                     FramePos(processed_frames, total_frames, holdframe_count),
                     total_frames - holdframe_count)
            ELSE frame_image]

\* Grid._frames_gen(holdframe_count), everything it yields
GridFramesGen(g, v, frs, holdframe_count) ==
    LET total_frames == Len(frs)
    IN  [i \in 1 .. Len(frs) |->
            YieldFrame(g, v, i, frs[i], i, total_frames, holdframe_count)]

\* the hold loop copying the last buffered frame instead of the live canvas
GridHoldExpandCopyLast(g, st, holdframe_count) ==
    IF holdframe_count <= 0 \/ st.frames = <<>>
    THEN RepeatSaveFrame(g, st, holdframe_count)
    ELSE [image |-> st.image,
          frames |-> st.frames
                       \o [i \in 1 .. holdframe_count |-> st.frames[Len(st.frames)]]]

\* the frames of a Grid after the hold loop of save_animation
GridHoldExpand(g, st, holdframe_count) == RepeatSaveFrame(g, st, holdframe_count)

GridSaveAnimation(v, duration) ==
    LET holdframe_count == GridHoldframeCount(holdresult[v], duration)
    IN  /\ Len(frames[v]) + holdframe_count <= MaxBuffer
        /\ \E st \in {GridHoldExpand(grid[v],
                                     [image |-> image[v], frames |-> frames[v]],
                                     holdframe_count)} :
           \E gen \in {GridFramesGen(grid[v], v, st.frames, holdframe_count)} :
             /\ image' = [image EXCEPT ![v] = st.image]
             /\ frames' = [frames EXCEPT ![v] = st.frames]
             /\ out' = [op |-> "Grid.save_animation",
                        visuals |-> <<v>>,
                        duration |-> duration,
                        holdresult |-> holdresult[v],
                        lens |-> BufferLengths,
                        \* next(frame_gen) on a generator that yields nothing
                        raised |-> IF gen = <<>> THEN "StopIteration" ELSE "",
                        holdframe_count |-> holdframe_count,
                        total_frames |-> Len(st.frames),
                        emitted |-> gen,
                        \* base_grid.save(..., append_images=frame_gen)
                        base_grid |-> IF gen = <<>> THEN NoFrame ELSE Head(gen),
                        append_images |-> IF gen = <<>> THEN <<>> ELSE Tail(gen)]
        /\ UNCHANGED <<cfg, bbox, grid, holdresult>>

(***************************************************************************)
(* Animator.save_animation and Animator._frames_gen (resize=None).         *)
(* sts maps each visual to its pair [image, frames].                       *)
(***************************************************************************)
\* the hold frame count of Animator.save_animation; duration # 0
AnimatorHoldframeCount(hold, duration) == IntTrueDiv(hold, duration)

\* whether the first loop of _frames_gen expands a visual by its own hold
HonoursVisualHold(holdframe_count, visual_holdresult) ==
    holdframe_count = 0 /\ visual_holdresult # 0

\* the global hold frames appended to the first visual of the list
GlobalHoldExpandFirst(visuals, sts, holdframe_count) ==
    IF holdframe_count # 0
    THEN LET first == visuals[1]
         IN  [sts EXCEPT ![first] = RepeatSaveFrame(grid[first], @, holdframe_count)]
    ELSE sts

\* if holdframe_count: for _ in range(holdframe_count): visuals[-1].save_frame()
GlobalHoldExpand(visuals, sts, holdframe_count) ==
    IF holdframe_count # 0
    THEN LET last == visuals[Len(visuals)]
         IN  [sts EXCEPT ![last] = RepeatSaveFrame(grid[last], @, holdframe_count)]
    ELSE sts

\* the first loop over visuals, from visuals[i] on: per-visual hold frames
\* and total_frames
RECURSIVE CountFrames(_, _, _, _, _, _)
CountFrames(visuals, i, duration, holdframe_count, sts, total_frames) ==
    IF i > Len(visuals)
    THEN [sts |-> sts, total_frames |-> total_frames]
    ELSE LET visual == visuals[i]
             visual_holdframe_count ==
                 AnimatorHoldframeCount(holdresult[visual], duration)
             sts1 ==
                 IF HonoursVisualHold(holdframe_count, holdresult[visual])
                 THEN [sts EXCEPT ![visual] =
                          RepeatSaveFrame(grid[visual], @, visual_holdframe_count)]
                 ELSE sts
         IN  CountFrames(visuals, i + 1, duration, holdframe_count, sts1,
                         total_frames + Len(sts1[visual].frames))

\* the second loop with processed_frames restarting at 1 for every visual
RECURSIVE AnimatorYieldRestart(_, _, _, _, _, _)
AnimatorYieldRestart(visuals, i, sts, processed_frames, total_frames, holdframe_count) ==
    IF i > Len(visuals)
    THEN <<>>
    ELSE LET visual == visuals[i]
             frs == sts[visual].frames
         IN  [j \in 1 .. Len(frs) |->
                 YieldFrame(grid[visual], visual, j, frs[j], j, total_frames,
                            holdframe_count)]
             \o AnimatorYieldRestart(visuals, i + 1, sts, 1, total_frames,
                                     holdframe_count)

\* the second loop reading every buffer from its last frame to its first
RECURSIVE AnimatorYieldBackwards(_, _, _, _, _, _)
AnimatorYieldBackwards(visuals, i, sts, processed_frames, total_frames, holdframe_count) ==
    IF i > Len(visuals)
    THEN <<>>
    ELSE LET visual == visuals[i]
             frs == sts[visual].frames
         IN  [j \in 1 .. Len(frs) |->
                 YieldFrame(grid[visual], visual, (Len(frs) + 1) - j,
                            frs[(Len(frs) + 1) - j],
                            processed_frames + (j - 1), total_frames,
                            holdframe_count)]
             \o AnimatorYieldBackwards(visuals, i + 1, sts,
                                       processed_frames + Len(frs),
                                       total_frames, holdframe_count)

\* the second loop over visuals, from visuals[i] on: everything it yields
RECURSIVE AnimatorYield(_, _, _, _, _, _)
AnimatorYield(visuals, i, sts, processed_frames, total_frames, holdframe_count) ==
    IF i > Len(visuals)
    THEN <<>>
    ELSE LET visual == visuals[i]
             frs == sts[visual].frames
         IN  [j \in 1 .. Len(frs) |->
                 YieldFrame(grid[visual], visual, j, frs[j],
                            processed_frames + (j - 1), total_frames,
                            holdframe_count)]
             \o AnimatorYield(visuals, i + 1, sts, processed_frames + Len(frs),
                              total_frames, holdframe_count)

\* the first part of Animator._frames_gen: the hold frames and total_frames
AnimatorCount(visuals, duration, holdframe_count) ==
    CountFrames(visuals, 1, duration, holdframe_count,
                GlobalHoldExpand(
                    visuals,
                    [v \in Visuals |-> [image |-> image[v], frames |-> frames[v]]],
                    holdframe_count),
                0)

\* Animator.save_animation(visuals, duration=0): int(holdresult / duration)
\* raises before the generator exists
AnimatorSaveAnimationZero(visuals, hold) ==
    /\ out' = [op |-> "Animator.save_animation",
               visuals |-> visuals,
               duration |-> 0,
               holdresult |-> hold,
               lens |-> BufferLengths,
               raised |-> "ZeroDivisionError",
               holdframe_count |-> 0,
               total_frames |-> 0,
               emitted |-> <<>>,
               base_grid |-> NoFrame,
               append_images |-> <<>>]
    /\ UNCHANGED <<cfg, bbox, grid, image, frames, holdresult>>

\* Animator.save_animation(visuals, duration, holdresult) with duration # 0,
\* visuals[-1].save_frame() raising on an empty list
AnimatorSaveAnimationEmpty(visuals, duration, hold) ==
    /\ duration # 0
    /\ visuals = <<>>
    /\ AnimatorHoldframeCount(hold, duration) > 0
    /\ out' = [op |-> "Animator.save_animation",
               visuals |-> visuals,
               duration |-> duration,
               holdresult |-> hold,
               lens |-> BufferLengths,
               raised |-> "IndexError",
               holdframe_count |-> AnimatorHoldframeCount(hold, duration),
               total_frames |-> 0,
               emitted |-> <<>>,
               base_grid |-> NoFrame,
               append_images |-> <<>>]
    /\ UNCHANGED <<cfg, bbox, grid, image, frames, holdresult>>

\* Animator.save_animation(visuals, duration, holdresult) with duration # 0:
\* the first next(frame_gen) runs both hold loops and the count, then the
\* encoder pulls every frame
AnimatorSaveAnimationRun(visuals, duration, hold) ==
    /\ duration # 0
    /\ ~(visuals = <<>> /\ AnimatorHoldframeCount(hold, duration) > 0)
    /\ \E holdframe_count \in {AnimatorHoldframeCount(hold, duration)} :
       \E counted \in {AnimatorCount(visuals, duration, holdframe_count)} :
       \E emitted \in {AnimatorYield(visuals, 1, counted.sts, 1,
                                      counted.total_frames, holdframe_count)} :
         /\ \A v \in Visuals : Len(counted.sts[v].frames) <= MaxFrames
         /\ image' = [v \in Visuals |-> counted.sts[v].image]
         /\ frames' = [v \in Visuals |-> counted.sts[v].frames]
         /\ out' = [op |-> "Animator.save_animation",
                    visuals |-> visuals,
                    duration |-> duration,
                    holdresult |-> hold,
                    lens |-> BufferLengths,
                    \* next(frame_gen) on a generator that yields nothing
                    raised |-> IF emitted = <<>> THEN "StopIteration" ELSE "",
                    holdframe_count |-> holdframe_count,
                    total_frames |-> counted.total_frames,
                    emitted |-> emitted,
                    \* base_grid.save(..., append_images=frame_gen)
                    base_grid |-> IF emitted = <<>> THEN NoFrame ELSE Head(emitted),
                    append_images |-> IF emitted = <<>> THEN <<>> ELSE Tail(emitted)]
    /\ UNCHANGED <<cfg, bbox, grid, holdresult>>

AnimatorSaveAnimation(visuals, duration, hold) ==
    \/ duration = 0 /\ AnimatorSaveAnimationZero(visuals, hold)
    \/ AnimatorSaveAnimationEmpty(visuals, duration, hold)
    \/ AnimatorSaveAnimationRun(visuals, duration, hold)

\* the frame durations an export is called with
Durations == {0, MaxDuration}

\* the lists of visuals an export is given, repeats included
VisualLists == {<<>>, <<1>>, <<2>>, <<1, 2>>, <<2, 1>>, <<1, 1>>, <<2, 2>>}

(***************************************************************************)
(* The two exports statement by statement.  out is the frame of the        *)
(* running call: pc is the loop it is in, n counts the iterations of the   *)
(* current hold loop, i is the position in the list of visuals, k the      *)
(* number of frames read from the current buffer, counted the visuals      *)
(* whose buffer length was added to total_frames.                          *)
(***************************************************************************)
StepsIdle == IF out.op = "none" THEN TRUE ELSE out.pc \in {"done", "raised"}

NewCall(op, visuals, duration, hold, holdframe_count, pc, raised) ==
    [op |-> op,
     pc |-> pc,
     visuals |-> visuals,
     duration |-> duration,
     holdresult |-> hold,
     lens |-> BufferLengths,
     raised |-> raised,
     holdframe_count |-> holdframe_count,
     n |-> 0,
     i |-> 1,
     k |-> 0,
     processed_frames |-> 1,
     total_frames |-> 0,
     counted |-> <<>>,
     emitted |-> <<>>]

\* visual.save_frame() inside a running export
SaveFrameStep(v) ==
    \E st \in {SaveFrameOf(grid[v], [image |-> image[v], frames |-> frames[v]])} :
        /\ image' = [image EXCEPT ![v] = st.image]
        /\ frames' = [frames EXCEPT ![v] = st.frames]

\* the second loop starting over instead of ending
FramesDoneRestart ==
    out' = [out EXCEPT !.i = 1, !.k = 0, !.processed_frames = 1, !.emitted = <<>>]

\* the generator is exhausted: the encoder call returns, or the first
\* next(frame_gen) raised because nothing was yielded
FramesDone ==
    out' = [out EXCEPT
               !.pc = IF out.emitted = <<>> THEN "raised" ELSE "done",
               !.raised = IF out.emitted = <<>> THEN "StopIteration" ELSE ""]

\* Grid.save_animation(duration=duration) is called
GridCall(v, duration) ==
    /\ StepsIdle
    /\ \E holdframe_count \in {GridHoldframeCount(holdresult[v], duration)} :
         /\ Len(frames[v]) + holdframe_count <= MaxBuffer
         /\ out' = NewCall("Grid.save_animation", <<v>>, duration, holdresult[v],
                           holdframe_count, "hold_loop", "")
    /\ UNCHANGED <<cfg, bbox, grid, image, frames, holdresult>>

\* for _ in range(holdframe_count): self.save_frame()
GridHoldStep ==
    /\ out.op = "Grid.save_animation"
    /\ out.pc = "hold_loop"
    /\ out.n < out.holdframe_count
    /\ SaveFrameStep(out.visuals[1])
    /\ out' = [out EXCEPT !.n = @ + 1]
    /\ UNCHANGED <<cfg, bbox, grid, holdresult>>

\* the hold loop is over; next(frame_gen) starts Grid._frames_gen, which
\* reads len(self.frames)
GridHoldDone ==
    /\ out.op = "Grid.save_animation"
    /\ out.pc = "hold_loop"
    /\ out.n >= out.holdframe_count
    /\ out' = [out EXCEPT !.pc = "frames_loop",
                          !.processed_frames = 1,
                          !.total_frames = Len(frames[out.visuals[1]]),
                          !.counted = <<out.visuals[1]>>]
    /\ UNCHANGED <<cfg, bbox, grid, image, frames, holdresult>>

\* for frame in self.frames: one frame decoded, labelled and yielded
GridYieldStep ==
    /\ out.op = "Grid.save_animation"
    /\ out.pc = "frames_loop"
    /\ out.k < Len(frames[out.visuals[1]])
    /\ LET v == out.visuals[1]
       IN  out' = [out EXCEPT
                      !.emitted =
                          Append(@, YieldFrame(grid[v], v, out.k + 1,
                                               frames[v][out.k + 1],
                                               out.processed_frames,
                                               out.total_frames,
                                               out.holdframe_count)),
                      !.k = @ + 1,
                      !.processed_frames = @ + 1]
    /\ UNCHANGED <<cfg, bbox, grid, image, frames, holdresult>>

GridFramesDone ==
    /\ out.op = "Grid.save_animation"
    /\ out.pc = "frames_loop"
    /\ out.k >= Len(frames[out.visuals[1]])
    /\ FramesDone
    /\ UNCHANGED <<cfg, bbox, grid, image, frames, holdresult>>

\* Animator.save_animation(visuals, duration=duration, holdresult=hold) is
\* called: int(holdresult / duration), then next(frame_gen) starts
\* Animator._frames_gen
AnimatorCall(visuals, duration, hold) ==
    /\ StepsIdle
    /\ IF duration = 0
       THEN out' = NewCall("Animator.save_animation", visuals, 0, hold, 0,
                           "raised", "ZeroDivisionError")
       ELSE \E holdframe_count \in {AnimatorHoldframeCount(hold, duration)} :
              /\ IF visuals = <<>> /\ holdframe_count # 0 THEN TRUE
                 ELSE \A v \in Visuals :
                        Len(AnimatorCount(visuals, duration,
                                          holdframe_count).sts[v].frames)
                          <= MaxFrames
              /\ out' = NewCall("Animator.save_animation", visuals, duration,
                                hold, holdframe_count, "global_hold", "")
    /\ UNCHANGED <<cfg, bbox, grid, image, frames, holdresult>>

\* visuals[-1] on an empty list
AnimatorGlobalHoldRaise ==
    /\ out.op = "Animator.save_animation"
    /\ out.pc = "global_hold"
    /\ out.holdframe_count # 0
    /\ out.n < out.holdframe_count
    /\ out.visuals = <<>>
    /\ out' = [out EXCEPT !.pc = "raised", !.raised = "IndexError"]
    /\ UNCHANGED <<cfg, bbox, grid, image, frames, holdresult>>

\* for _ in range(holdframe_count): visuals[-1].save_frame()
AnimatorGlobalHoldStep ==
    /\ out.op = "Animator.save_animation"
    /\ out.pc = "global_hold"
    /\ out.holdframe_count # 0
    /\ out.n < out.holdframe_count
    /\ out.visuals # <<>>
    /\ SaveFrameStep(out.visuals[Len(out.visuals)])
    /\ out' = [out EXCEPT !.n = @ + 1]
    /\ UNCHANGED <<cfg, bbox, grid, holdresult>>

AnimatorGlobalHoldDone ==
    /\ out.op = "Animator.save_animation"
    /\ out.pc = "global_hold"
    /\ (out.holdframe_count = 0 \/ out.n >= out.holdframe_count)
    /\ out' = [out EXCEPT !.pc = "visuals_loop", !.i = 1, !.n = 0]
    /\ UNCHANGED <<cfg, bbox, grid, image, frames, holdresult>>

\* for _ in range(visual_holdframe_count): visual.save_frame()
AnimatorVisualHoldStep ==
    /\ out.op = "Animator.save_animation"
    /\ out.pc = "visuals_loop"
    /\ out.i <= Len(out.visuals)
    /\ HonoursVisualHold(out.holdframe_count, holdresult[out.visuals[out.i]])
    /\ out.n < AnimatorHoldframeCount(holdresult[out.visuals[out.i]], out.duration)
    /\ SaveFrameStep(out.visuals[out.i])
    /\ out' = [out EXCEPT !.n = @ + 1]
    /\ UNCHANGED <<cfg, bbox, grid, holdresult>>

\* total_frames += len(visual.frames), and on to the next visual
AnimatorCountStep ==
    /\ out.op = "Animator.save_animation"
    /\ out.pc = "visuals_loop"
    /\ out.i <= Len(out.visuals)
    /\ \/ ~HonoursVisualHold(out.holdframe_count, holdresult[out.visuals[out.i]])
       \/ out.n >= AnimatorHoldframeCount(holdresult[out.visuals[out.i]],
                                          out.duration)
    /\ out' = [out EXCEPT
                  !.total_frames = @ + Len(frames[out.visuals[out.i]]),
                  !.counted = Append(@, out.visuals[out.i]),
                  !.i = @ + 1,
                  !.n = 0]
    /\ UNCHANGED <<cfg, bbox, grid, image, frames, holdresult>>

AnimatorCountDone ==
    /\ out.op = "Animator.save_animation"
    /\ out.pc = "visuals_loop"
    /\ out.i > Len(out.visuals)
    /\ out' = [out EXCEPT !.pc = "frames_loop", !.i = 1, !.k = 0]
    /\ UNCHANGED <<cfg, bbox, grid, image, frames, holdresult>>

\* for frame in visual.frames: one frame decoded, labelled and yielded
AnimatorYieldStep ==
    /\ out.op = "Animator.save_animation"
    /\ out.pc = "frames_loop"
    /\ out.i <= Len(out.visuals)
    /\ out.k < Len(frames[out.visuals[out.i]])
    /\ LET visual == out.visuals[out.i]
       IN  out' = [out EXCEPT
                      !.emitted =
                          Append(@, YieldFrame(grid[visual], visual, out.k + 1,
                                               frames[visual][out.k + 1],
                                               out.processed_frames,
                                               out.total_frames,
                                               out.holdframe_count)),
                      !.k = @ + 1,
                      !.processed_frames = @ + 1]
    /\ UNCHANGED <<cfg, bbox, grid, image, frames, holdresult>>

\* the buffer of visuals[i] is exhausted: the next visual
AnimatorNextVisual ==
    /\ out.op = "Animator.save_animation"
    /\ out.pc = "frames_loop"
    /\ out.i <= Len(out.visuals)
    /\ out.k >= Len(frames[out.visuals[out.i]])
    /\ out' = [out EXCEPT !.i = @ + 1, !.k = 0]
    /\ UNCHANGED <<cfg, bbox, grid, image, frames, holdresult>>

AnimatorFramesDone ==
    /\ out.op = "Animator.save_animation"
    /\ out.pc = "frames_loop"
    /\ out.i > Len(out.visuals)
    /\ FramesDone
    /\ UNCHANGED <<cfg, bbox, grid, image, frames, holdresult>>

\* the statements of a running export
ExportStep ==
    \/ GridHoldStep
    \/ GridHoldDone
    \/ GridYieldStep
    \/ GridFramesDone
    \/ AnimatorGlobalHoldRaise
    \/ AnimatorGlobalHoldStep
    \/ AnimatorGlobalHoldDone
    \/ AnimatorVisualHoldStep
    \/ AnimatorCountStep
    \/ AnimatorCountDone
    \/ AnimatorYieldStep
    \/ AnimatorNextVisual
    \/ AnimatorFramesDone

(***************************************************************************)
(* Grid.neighbors.                                                         *)
(***************************************************************************)
\* neighbors without the test against the grid
NeighborsUnfiltered(g, cell, diag) ==
    LET x == cell[1]
        y == cell[2]
    IN  IF diag
        THEN <<(<<x - 1, y - 1>>), (<<x - 1, y>>), (<<x - 1, y + 1>>),
               (<<x, y - 1>>), (<<x, y + 1>>),
               (<<x + 1, y - 1>>), (<<x + 1, y>>), (<<x + 1, y + 1>>)>>
        ELSE <<(<<x - 1, y>>), (<<x, y - 1>>), (<<x, y + 1>>), (<<x + 1, y>>)>>

\* Grid.neighbors(cell, diag)
Neighbors(g, cell, diag) ==
    LET x == cell[1]
        y == cell[2]
        possible_neighbor_cells ==
            IF diag
            THEN <<(<<x - 1, y - 1>>), (<<x - 1, y>>), (<<x - 1, y + 1>>),
                   (<<x, y - 1>>), (<<x, y + 1>>),
                   (<<x + 1, y - 1>>), (<<x + 1, y>>), (<<x + 1, y + 1>>)>>
            ELSE <<(<<x - 1, y>>), (<<x, y - 1>>), (<<x, y + 1>>), (<<x + 1, y>>)>>
        InGrid(c) == c[1] \in Range(0, g.grid_x, 1) /\ c[2] \in Range(0, g.grid_y, 1)
    IN  SelectSeq(possible_neighbor_cells, InGrid)

\* SpecNeighbors: construct a grid, then ask for the neighbors of cells in
\* it and up to MaxOutside cells outside it
InitNeighbors ==
    /\ cfg = NoGrid
    /\ bbox = NoBBox
    /\ grid = <<>>
    /\ image = <<>>
    /\ frames = <<>>
    /\ holdresult = <<>>
    /\ out = NoOut

ConstructPlain ==
    \E grid_x \in 1 .. MaxNeighborGrid, grid_y \in 1 .. MaxNeighborGrid :
        Construct(grid_x, grid_y, 1, 1, FALSE, 1, FALSE, FALSE)

NeighborsCall ==
    /\ cfg # NoGrid
    /\ \E x \in (0 - MaxOutside) .. ((cfg.grid_x - 1) + MaxOutside),
          y \in (0 - MaxOutside) .. ((cfg.grid_y - 1) + MaxOutside),
          diag \in BOOLEAN :
         out' = [op |-> "Grid.neighbors",
                 cell |-> <<x, y>>,
                 diag |-> diag,
                 neighbor_cells |-> Neighbors(cfg, <<x, y>>, diag)]
    /\ UNCHANGED <<cfg, bbox, grid, image, frames, holdresult>>

NextNeighbors == ConstructPlain \/ NeighborsCall

SpecNeighbors == InitNeighbors /\ [][NextNeighbors]_vars

(***************************************************************************)
(* Claims about the geometry.                                              *)
(***************************************************************************)
BBoxInside(g, b) ==
    /\ 0 <= b.x0 /\ b.x0 <= b.x1 /\ b.x1 < g.image_width
    /\ 0 <= b.y0 /\ b.y0 <= b.y1 /\ b.y1 < g.grid_image_height

\* C8: for every constructed grid (positive cell counts and sizes,
\* gridline_width >= 0, gridlines and vertical flip on or off) and every
\* in-range cell, the bounding box fill_cell computes lies inside the canvas
\* width and the grid pixel height, and two distinct cells share no pixel.
C8_BBoxInsideAndDisjoint ==
    cfg # NoGrid =>
        /\ bbox # NoBBox => BBoxInside(cfg, bbox)
        /\ \A c \in Cells(cfg) : BBoxInside(cfg, FillCellBBox(cfg, c))
        /\ \A c1 \in Cells(cfg), c2 \in Cells(cfg) :
              c1 # c2 =>
                BBoxPixels(FillCellBBox(cfg, c1))
                  \cap BBoxPixels(FillCellBBox(cfg, c2)) = {}

\* a flipped grid without gridlines whose last fill_cell reached the
\* bottom-right pixel of the grid region
C8_Witness ==
    /\ cfg # NoGrid
    /\ bbox # NoBBox
    /\ cfg.flip_vertical
    /\ ~cfg.gridlines
    /\ cfg.grid_x = MaxGridX
    /\ cfg.grid_y = MaxGridY
    /\ bbox.coord = <<MaxGridX - 1, 0>>
    /\ bbox.x1 = cfg.image_width - 1
    /\ bbox.y1 = cfg.grid_image_height - 1

\* C9 as stated: the counter band is max(15, round(grid_h / 40)) when the
\* counter is enabled and 0 when it is disabled, and the canvas height is
\* the grid height plus the band.
C9_BandRounded ==
    cfg # NoGrid =>
        /\ cfg.frame_counter_text_height =
              (IF cfg.frame_counter_text
               THEN Max(15, RoundOfScaled(cfg.grid_image_height)) ELSE 0)
        /\ cfg.image_height = cfg.grid_image_height + cfg.frame_counter_text_height

\* C9 amended: the band is max(15, floor(grid_h / 40)) when the counter is
\* enabled (15 below 640 pixels, above that the integer b with
\* 40*b <= grid_h < 40*(b+1)) and 0 when it is disabled, and the canvas
\* height is the grid height plus the band.
C9_BandTruncated ==
    cfg # NoGrid =>
        LET h == cfg.grid_image_height
            b == cfg.frame_counter_text_height
        IN  /\ cfg.frame_counter_text /\ h < 640 => b = 15
            /\ cfg.frame_counter_text /\ h >= 640 => 40 * b <= h /\ h < 40 * (b + 1)
            /\ ~cfg.frame_counter_text => b = 0
            /\ cfg.image_height = h + b

\* a counter-enabled grid whose height divided by 40 is above 16.5
C9_Witness ==
    /\ cfg # NoGrid
    /\ cfg.frame_counter_text
    /\ cfg.grid_image_height > 660
    /\ cfg.frame_counter_text_height = 16

(***************************************************************************)
(* Claims about recording and export.  A state whose out.op is an export   *)
(* is the state that export left: out.lens holds the buffer lengths and    *)
(* out.holdresult the hold duration it was called with.                    *)
(***************************************************************************)
IsGridExport == out.op = "Grid.save_animation"

IsAnimatorExport == out.op = "Animator.save_animation"

\* floor(hold / duration), the divisor taken as 1 when duration = 0
FloorHoldCount(hold, duration) ==
    IF duration = 0 THEN hold
    ELSE CHOOSE q \in 0 .. hold : duration * q <= hold /\ hold < duration * (q + 1)

\* the label text the counter band of an emitted frame holds
Label(frame_pos, total) == {<<"Frame: ", frame_pos, total>>}

RECURSIVE SumLens(_, _)
SumLens(lens, visuals) ==
    IF visuals = <<>> THEN 0 ELSE lens[Head(visuals)] + SumLens(lens, Tail(visuals))

\* C1: a buffered frame never changes and never leaves its index, whatever
\* fill_cell, save_frame or export does later, and a frame that a step appends
\* decodes to the live canvas as the save_frame call left it.
C1_SnapshotIsolation ==
    [][\A v \in Visuals :
          /\ Len(frames'[v]) >= Len(frames[v])
          /\ \A k \in 1 .. Len(frames[v]) : frames'[v][k] = frames[v][k]
          /\ \A k \in (Len(frames[v]) + 1) .. Len(frames'[v]) :
                ImageOpen(frames'[v][k]) = image'[v]]_vars

\* an export annotated frame 1 of the counter-enabled visual after the canvas
\* was filled past that snapshot: the buffered frame is blank and unlabelled
C1_Witness ==
    /\ IsGridExport
    /\ out.visuals = <<1>>
    /\ out.raised = ""
    /\ out.emitted[1].image.text # {}
    /\ frames[1][1].text = {}
    /\ ImageOpen(frames[1][1]).px # image[1].px
    /\ ImageOpen(frames[1][1]).px[<<1, 1>>] = "bg"
    /\ image[1].px[<<1, 1>>] = "fill"

\* C2: Grid.save_animation on a buffer of length L >= 1 with hold H >= 0 and
\* frame duration D emits exactly L + floor(H / D) frames (divisor 1 when
\* D = 0); with the counter enabled frame i <= L is labelled "i / L" and every
\* hold frame "L / L".
C2_SingleExportCountAndLabels ==
    IsGridExport =>
        LET v == out.visuals[1]
            L == out.lens[v]
            n == FloorHoldCount(out.holdresult, out.duration)
        IN  L >= 1 =>
              /\ out.raised = ""
              /\ Len(out.emitted) = L + n
              /\ grid[v].frame_counter_text =>
                    \A i \in 1 .. Len(out.emitted) :
                        out.emitted[i].image.text =
                            Label(IF i <= L THEN i ELSE L, L)

\* a counter-enabled export of one recorded frame and at least one hold frame
C2_Witness ==
    /\ IsGridExport
    /\ grid[out.visuals[1]].frame_counter_text
    /\ out.lens[out.visuals[1]] >= 1
    /\ out.holdframe_count >= 1
    /\ Len(out.emitted) = out.lens[out.visuals[1]] + out.holdframe_count

\* C3: Animator.save_animation without a global hold and without per-visual
\* holds emits the sum of the buffer lengths; the position counter is
\* 1, 2, ... in emission order across the visuals, it advances on every frame
\* whether or not the owning visual draws its counter, and a counter-enabled
\* frame is labelled with its global position.
C3_GlobalNumbering ==
    (/\ IsAnimatorExport
     /\ out.duration # 0
     /\ out.holdresult = 0
     /\ \A i \in 1 .. Len(out.visuals) : holdresult[out.visuals[i]] = 0) =>
        LET total == SumLens(out.lens, out.visuals)
        IN  /\ Len(out.emitted) = total
            /\ \A p \in 1 .. Len(out.emitted) :
                  /\ out.emitted[p].processed_frames = p
                  /\ out.emitted[p].image.text =
                        (IF grid[out.emitted[p].visual].frame_counter_text
                         THEN Label(p, total) ELSE {})

\* the counter-disabled visual first with two frames, then the counter-enabled
\* one, whose first frame is labelled 3
C3_Witness ==
    /\ IsAnimatorExport
    /\ out.visuals = <<2, 1>>
    /\ out.raised = ""
    /\ out.holdresult = 0
    /\ holdresult[1] = 0
    /\ out.lens[2] = 2
    /\ out.lens[1] >= 1
    /\ out.emitted[2].image.text = {}
    /\ out.emitted[3].visual = 1
    /\ out.emitted[3].image.text = Label(3, 2 + out.lens[1])

\* C4: the hold frame count of Grid.save_animation is floor(hold / duration)
\* for hold >= 0 and duration > 0 and is hold when duration = 0; that many
\* frames are appended and nothing raises over the division.
C4_GridHoldCount ==
    IsGridExport =>
        LET v == out.visuals[1]
        IN  /\ out.raised # "ZeroDivisionError"
            /\ out.holdframe_count = FloorHoldCount(out.holdresult, out.duration)
            /\ Len(frames[v]) = out.lens[v] + out.holdframe_count

\* an export with frame duration 0 and a positive hold duration
C4_Witness ==
    /\ IsGridExport
    /\ out.duration = 0
    /\ out.holdresult >= 1
    /\ out.holdframe_count = out.holdresult

\* C5: Animator.save_animation computes its hold frame counts by the rule of
\* Grid.save_animation: a frame duration of 0 is taken as divisor 1 and the
\* export does not raise because of it.
C5_AnimatorZeroDuration ==
    IsAnimatorExport =>
        /\ out.raised # "ZeroDivisionError"
        /\ out.holdframe_count = FloorHoldCount(out.holdresult, out.duration)

\* C6: when Animator.save_animation is given a global hold duration > 0 the
\* per-visual hold durations are ignored: the export appends frames to the
\* last visual only, floor(global hold / duration) of them.
C6_GlobalHoldOverrides ==
    (/\ IsAnimatorExport
     /\ out.holdresult > 0
     /\ out.raised \notin {"ZeroDivisionError", "IndexError"}) =>
        \A v \in Visuals :
            Len(frames[v]) =
                out.lens[v]
                  + (IF out.visuals # <<>> /\ v = out.visuals[Len(out.visuals)]
                     THEN FloorHoldCount(out.holdresult, out.duration) ELSE 0)

\* C7: Grid.save_animation on an empty frame buffer ends in an error and
\* emits nothing, for every hold duration and frame duration.
C7_EmptyBufferFails ==
    (IsGridExport /\ out.lens[out.visuals[1]] = 0) =>
        /\ out.raised # ""
        /\ out.emitted = <<>>

C11_AnimatorOnlyReads ==
    [][IsAnimatorExport' => (frames' = frames /\ image' = image)]_vars

RECURSIVE ReadOrder(_)
ReadOrder(visuals) ==
    IF visuals = <<>> THEN <<>>
    ELSE [j \in 1 .. Len(frames[Head(visuals)]) |-> <<Head(visuals), j>>]
           \o ReadOrder(Tail(visuals))

\* C13: an export that emits anything emits the buffers as they are when it
\* reads them, unbroken: the list of visuals front to back, each buffer from
\* its first frame to its last, every position once; each emitted frame has
\* the pixels of the buffered frame it was read from; the first emitted
\* frame is the base frame of the encoder call and the others follow it in
\* the same order.
C13_EmissionOrder ==
    ((IsGridExport \/ IsAnimatorExport) /\ out.raised = "") =>
        /\ [k \in 1 .. Len(out.emitted) |->
               <<out.emitted[k].visual, out.emitted[k].index>>]
             = ReadOrder(out.visuals)
        /\ \A k \in 1 .. Len(out.emitted) :
              LET e == out.emitted[k]
              IN  /\ e.image.size = ImageOpen(frames[e.visual][e.index]).size
                  /\ e.image.px = ImageOpen(frames[e.visual][e.index]).px
        /\ out.base_grid = out.emitted[1]
        /\ out.append_images = Tail(out.emitted)

\* the two-cell visual recorded fill A, snapshot, fill B, snapshot and is
\* exported in front of the other visual: the frame with A only, then the
\* frame with A and B, then the other visual's frame
C13_Witness ==
    /\ IsAnimatorExport
    /\ out.visuals = <<2, 1>>
    /\ out.raised = ""
    /\ Len(out.emitted) = 3
    /\ Cells(grid[2]) = {<<0, 0>>, <<1, 0>>}
    /\ out.base_grid.image.px[<<0, 0>>] = "fill"
    /\ out.base_grid.image.px[<<1, 0>>] = "bg"
    /\ out.append_images[1].image.px[<<0, 0>>] = "fill"
    /\ out.append_images[1].image.px[<<1, 0>>] = "fill"
    /\ out.append_images[2].visual = 1

\* C14: in every Animator export that gets as far as counting (any list of
\* visuals, a visual repeated or not, any per-visual hold), total_frames is
\* the sum over the list of the buffer lengths after all hold frames were
\* appended, which is the number of frames emitted, and the position of the
\* last emitted frame does not exceed it.
C14_TotalIsEmittedCount ==
    (IsAnimatorExport /\ out.raised \notin {"ZeroDivisionError", "IndexError"}) =>
        /\ out.total_frames = SumLens([v \in Visuals |-> Len(frames[v])], out.visuals)
        /\ out.total_frames = Len(out.emitted)
        /\ out.emitted # <<>> =>
              out.emitted[Len(out.emitted)].processed_frames <= out.total_frames

\* C16: a frame buffer is append-only.  Over every step of fill_cell,
\* save_frame, holdresult assignment and either export, no buffer gets
\* shorter and the frames it held stay where they were, in order; a
\* fill_cell step leaves every buffer as it was; a save_frame step makes the
\* buffer of its visual longer by exactly one and leaves the others alone
\* (both are steps that hand nothing to the encoder).
C16_BufferAppendOnly ==
    [][/\ \A v \in Visuals :
             /\ Len(frames'[v]) >= Len(frames[v])
             /\ SubSeq(frames'[v], 1, Len(frames[v])) = frames[v]
       /\ out'.op = "none" =>
             /\ \A v \in Visuals : \A coord \in Cells(grid[v]), fill \in FillColors :
                   FillCell(v, coord, fill) => frames' = frames
             /\ \A v \in Visuals :
                   SaveFrame(v) =>
                       /\ Len(frames'[v]) = Len(frames[v]) + 1
                       /\ \A w \in Visuals \ {v} : frames'[w] = frames[w]]_vars

\* a buffer of one blank frame to which an export appended a hold frame
\* showing the filled cell, the blank frame still first; the other visual
\* recorded twice
C16_Witness ==
    /\ IsAnimatorExport
    /\ out.visuals = <<1>>
    /\ out.lens = <<1, 2>>
    /\ Len(frames[1]) = 2
    /\ Len(frames[2]) = 2
    /\ frames[1][1] # frames[1][2]
    /\ ImageOpen(frames[1][1]).px[<<1, 1>>] = "bg"

\* C18: Grid.save_animation called again right after itself on a visual
\* with at least one recorded frame, with the same frame duration and the
\* same hold duration and no fill_cell or save_frame in between, emits as
\* many frames as the first call did, with the same counter label on each,
\* and counts as many frames that are not hold frames.
C18_ExportRepeatable ==
    [][(/\ IsGridExport
        /\ IsGridExport'
        /\ out.lens[out.visuals[1]] >= 1
        /\ out'.visuals = out.visuals
        /\ out'.duration = out.duration
        /\ out'.holdresult = out.holdresult) =>
          /\ Len(out'.emitted) = Len(out.emitted)
          /\ \A k \in 1 .. Len(out.emitted) :
                out'.emitted[k].image.text = out.emitted[k].image.text
          /\ out'.total_frames - out'.holdframe_count
               = out.total_frames - out.holdframe_count]_vars

(***************************************************************************)
(* Claims about the exports statement by statement (SpecSteps).            *)
(***************************************************************************)
Returned(o) == IF o.op = "none" THEN FALSE ELSE o.pc = "done"

\* the hold frames one expansion gives visual v in the call o
ExpectedHold(o, v) ==
    IF o.op = "Grid.save_animation"
    THEN (IF v = o.visuals[1] THEN o.holdframe_count ELSE 0)
    ELSE IF o.holdframe_count # 0
    THEN (IF v = o.visuals[Len(o.visuals)] THEN o.holdframe_count ELSE 0)
    ELSE IF \E i \in 1 .. Len(o.visuals) : o.visuals[i] = v
    THEN FloorHoldCount(holdresult[v], o.duration)
    ELSE 0

\* the totals written on the frames handed to the encoder
LabelTotals(o) ==
    UNION {{t[3] : t \in o.emitted[a].image.text} : a \in 1 .. Len(o.emitted)}

\* C15: in both exporters a hold frame is appended to a buffer only before
\* that buffer's length went into the total and before any frame was handed
\* to the encoder; when the call returns every buffer has grown by one hold
\* expansion (its hold frame count, once) and all labels show one total.
C15_HoldOnceBeforeNumbering ==
    [][/\ IF StepsIdle THEN TRUE
          ELSE \A v \in Visuals :
                  frames'[v] # frames[v] =>
                      /\ out.emitted = <<>>
                      /\ \A c \in 1 .. Len(out.counted) : out.counted[c] # v
       /\ Returned(out') =>
             /\ \A v \in Visuals :
                   Len(frames'[v]) = out'.lens[v] + ExpectedHold(out', v)
             /\ Cardinality(LabelTotals(out')) <= 1]_vars

\* C17: every export call that has begun, single-visual or multi-visual,
\* reaches the return of the encoder call or a raised error.
C17_ExportTerminates == (~StepsIdle) ~> StepsIdle

\* a multi-visual export that ran a hold loop, read two buffers and returned
C17_Witness ==
    /\ Returned(out)
    /\ out.op = "Animator.save_animation"
    /\ Len(out.visuals) = 2
    /\ out.holdframe_count >= 1
    /\ Len(out.emitted) >= 3
    /\ out.i = 3

(***************************************************************************)
(* Claims about Grid.neighbors (SpecNeighbors).                            *)
(***************************************************************************)
\* c is next to cell: one step away along a row or a column, or along a
\* diagonal when diag is set
Adjacent(c, cell, diag) ==
    LET dx == Abs(c[1] - cell[1])
        dy == Abs(c[2] - cell[2])
    IN  IF diag THEN (dx <= 1 /\ dy <= 1 /\ dx + dy >= 1) ELSE dx + dy = 1

\* C19: Grid.neighbors(cell, diag) lists every cell of the grid adjacent to
\* cell (8 directions with diag, 4 without) once each and nothing else: not
\* cell itself, no cell outside 0 <= x < grid_x, 0 <= y < grid_y, no cell
\* twice, whether cell is inside the grid or outside it.
C19_NeighborsExact ==
    out.op = "Grid.neighbors" =>
        LET r == out.neighbor_cells
            listed == {r[i] : i \in 1 .. Len(r)}
        IN  /\ Cardinality(listed) = Len(r)
            /\ out.cell \notin listed
            /\ listed \subseteq Cells(cfg)
            /\ listed = {c \in Cells(cfg) : Adjacent(c, out.cell, out.diag)}

\* the cell to the left of the middle row of the largest grid, outside it:
\* its three neighbors in column 0
C19_Witness ==
    /\ out.op = "Grid.neighbors"
    /\ cfg.grid_x = MaxNeighborGrid
    /\ cfg.grid_y = MaxNeighborGrid
    /\ out.cell = <<-1, 1>>
    /\ out.diag
    /\ out.neighbor_cells = <<(<<0, 0>>), (<<0, 1>>), (<<0, 2>>)>>

(***************************************************************************)
(* Spec: recording and export on the two visuals.                          *)
(***************************************************************************)
Next ==
    \/ \E v \in Visuals : \E coord \in Cells(grid[v]), fill \in FillColors :
          FillCell(v, coord, fill)
    \/ \E v \in Visuals : SaveFrame(v)
    \/ \E v \in HoldVisuals, h \in 0 .. MaxHold : SetHoldresult(v, h)
    \/ \E v \in Visuals, duration \in Durations : GridSaveAnimation(v, duration)
    \/ \E visuals \in VisualLists, duration \in Durations, hold \in 0 .. MaxHold :
          AnimatorSaveAnimation(visuals, duration, hold)

Spec == Init /\ [][Next]_vars

(***************************************************************************)
(* SpecScene: the same operations with a second visual of two cells.       *)
(***************************************************************************)
\* the counter-enabled one-cell grid and a grid of two cells side by side
\* without gridlines and without the counter
SceneConfigs ==
    <<VisualConfigs[1], GridInit(2, 1, 1, 1, FALSE, 1, FALSE, FALSE)>>

InitScene ==
    /\ cfg = NoGrid
    /\ bbox = NoBBox
    /\ grid = SceneConfigs
    /\ image = [v \in Visuals |-> NewImage(SceneConfigs[v])]
    /\ frames = [v \in Visuals |-> <<>>]
    /\ holdresult = [v \in Visuals |-> 0]
    /\ out = NoOut

SpecScene == InitScene /\ [][Next]_vars

(***************************************************************************)
(* SpecSteps: recording between exports, and the exports statement by      *)
(* statement.  The program is single-threaded and synchronous: a call that *)
(* has a next statement executes it, which is the weak fairness of         *)
(* ExportStep.                                                             *)
(***************************************************************************)
NextSteps ==
    \/ StepsIdle /\ \E v \in Visuals : \E coord \in Cells(grid[v]), fill \in FillColors :
          FillCell(v, coord, fill)
    \/ StepsIdle /\ \E v \in Visuals : SaveFrame(v)
    \/ StepsIdle /\ \E v \in HoldVisuals, h \in 0 .. MaxHold : SetHoldresult(v, h)
    \/ \E v \in Visuals, duration \in Durations : GridCall(v, duration)
    \/ \E visuals \in VisualLists, duration \in Durations, hold \in 0 .. MaxHold :
          AnimatorCall(visuals, duration, hold)
    \/ ExportStep

SpecSteps == Init /\ [][NextSteps]_vars /\ WF_vars(ExportStep)

====
